---- MODULE Spec2Model ----
(***************************************************************************)
(* A model of the outbound distribution pipeline of the social network     *)
(* manager: the content routes (publish, retry, list, post update/delete), *)
(* the account routes that decide which accounts a publish may target, the *)
(* RateLimiter and the platform clients' request funnel.                   *)
(*                                                                         *)
(* Seven specifications share the module:                                  *)
(*   Spec         publish, retry and list over the tables, for each        *)
(*                starting context of accounts, schedule and clock         *)
(*   SpecOps      every operation on the tables, on one starting context   *)
(*   SpecCascade  the routes alone, on tables with two posts               *)
(*   SpecRace     concurrent retry requests, each in its own session       *)
(*   SpecLimiter  one RateLimiter instance driven by sequential calls      *)
(*   SpecClient   one platform client per adapter and its HTTP funnel      *)
(*   SpecFactory  APIClientFactory and the clients it creates, each with   *)
(*                its own RateLimiter                                      *)
(***************************************************************************)
EXTENDS Integers, Sequences, FiniteSets, TLC

VARIABLES
    clock,      \* datetime.utcnow() of the routes, in abstract ticks
    posts,      \* table content_posts: post id -> row, or NoRow once deleted
    accounts,   \* table social_media_accounts: account id -> row
    dists,      \* table post_distributions: the set of rows
    next_id,    \* next primary key of post_distributions
    resp,       \* the response of the route call in progress, if any
    calls_per_minute, \* RateLimiter.calls_per_minute
    calls,      \* RateLimiter.calls
    wall,       \* the wall clock datetime.now() reads, in seconds
    pc,         \* where the caller of wait_if_needed is
    now,        \* wait_if_needed's local variable now
    wait_time,  \* wait_if_needed's local variable wait_time
    starts,     \* history: the times at which wait_if_needed() returned
    invoked,    \* history: the number of wait_if_needed() invocations
    recorded,   \* history: the number of timestamps appended to calls
    page_id,    \* FacebookClient.page_id, from the credentials
    json_error_is_request_exception,
                \* whether the installed requests raises, from
                \* response.json(), a subclass of RequestException
    slots,      \* per client: the length of its rate_limiter.calls
    requests,   \* the HTTP requests the clients' sessions have sent
    result,     \* the last client operation: the remote outcome of its last
                \* request (http), what _make_request made of it (funnel),
                \* what the get_user_info sub-call of LinkedIn's
                \* post_content returned (user_info), the requests the
                \* operation sent (sent) and what it handed to its
                \* caller (out)
    log,        \* what the last client operation wrote to the logger about
                \* its media files
    instances,  \* the clients APIClientFactory.create_client has returned,
                \* each with the calls of its own rate_limiter
    made,       \* what the last create_client call handed to its caller
    sessions    \* concurrent retry requests: per request, where it is, the
                \* row its session has loaded, and its answer

routeVars   == <<clock, posts, accounts, dists, next_id, resp>>
limiterVars == <<calls_per_minute, calls, wall, pc, now, wait_time, starts,
                 invoked, recorded>>
clientVars  == <<page_id, json_error_is_request_exception, slots, requests,
                 result, log, instances, made>>
raceVars    == <<sessions>>
vars == <<routeVars, limiterVars, clientVars, raceVars>>

-----------------------------------------------------------------------------
(* Bounds of the model.                                                    *)

MaxDists == 2
MaxRetry == 1

(* Python's None, and a present value, for a nullable column.              *)
None == <<>>
Some(v) == <<v>>

-----------------------------------------------------------------------------
(* The routes: src/routes/content.py and src/routes/social_accounts.py     *)

Users == {1, 2}
PostIds == {1, 2}
AccountIds == {1, 2, 3}
NoRow == [absent |-> TRUE]

(* timedelta(days=60) of add_social_account and update_social_account, in  *)
(* ticks of the abstract clock: one tick is sixty days.                    *)
AuthTTL == 1

(* The time a post is scheduled for when the caller gives one.             *)
SchedAt == AuthTTL + 5

Statuses == {"pending", "publishing", "completed", "failed", "error"}

(* SocialMediaAccount.is_authenticated                                     *)
is_authenticated(acc) ==
    IF acc.connection_status # "active" THEN FALSE
    ELSE IF acc.authentication_expires_at # None
            /\ acc.authentication_expires_at[1] < clock THEN FALSE
    ELSE TRUE

(* ContentPost.query.filter_by(id=post_id, user_id=user_id).first()        *)
OwnedPost(user_id, post_id) ==
    post_id \in PostIds /\ posts[post_id] # NoRow
    /\ posts[post_id].user_id = user_id

(* The members of a list, as IN (...) sees them.                           *)
Range(s) == {s[i] : i \in DOMAIN s}

(* SelectedAccounts without the filter on the accounts' owner.              *)
SelectedAccounts_AnyOwner(user_id, platform_ids) ==
    {a \in AccountIds :
        /\ accounts[a] # NoRow
        /\ a \in Range(platform_ids)
        /\ accounts[a].connection_status = "active"}

(* The query of publish_post: the requester's accounts among platform_ids  *)
(* whose connection_status is 'active'.                                    *)
SelectedAccounts(user_id, platform_ids) ==
    {a \in AccountIds :
        /\ accounts[a] # NoRow
        /\ accounts[a].user_id = user_id
        /\ a \in Range(platform_ids)
        /\ accounts[a].connection_status = "active"}

(* NewDistribution scheduled for the time of the call, whatever the post.  *)
NewDistribution_AlwaysNow(id, post_id, account_id) ==
    [id |-> id,
     post_id |-> post_id,
     social_media_account_id |-> account_id,
     platform_post_id |-> None,
     distribution_status |-> "pending",
     scheduled_for |-> Some(clock),
     attempted_at |-> None,
     completed_at |-> None,
     error_message |-> None,
     retry_count |-> 0,
     platform_response |-> None,
     created_at |-> clock]

(* NewDistribution with completed_at stamped like created_at.              *)
NewDistribution_CompletedAtNow(id, post_id, account_id) ==
    [id |-> id,
     post_id |-> post_id,
     social_media_account_id |-> account_id,
     platform_post_id |-> None,
     distribution_status |-> "pending",
     scheduled_for |-> IF posts[post_id].scheduled_for # None
                       THEN posts[post_id].scheduled_for ELSE Some(clock),
     attempted_at |-> None,
     completed_at |-> Some(clock),
     error_message |-> None,
     retry_count |-> 0,
     platform_response |-> None,
     created_at |-> clock]

(* NewDistribution with the status the post itself is given: 'publishing'. *)
NewDistribution_Publishing(id, post_id, account_id) ==
    [id |-> id,
     post_id |-> post_id,
     social_media_account_id |-> account_id,
     platform_post_id |-> None,
     distribution_status |-> "publishing",
     scheduled_for |-> IF posts[post_id].scheduled_for # None
                       THEN posts[post_id].scheduled_for ELSE Some(clock),
     attempted_at |-> None,
     completed_at |-> None,
     error_message |-> None,
     retry_count |-> 0,
     platform_response |-> None,
     created_at |-> clock]

(* PostDistribution(...) as publish_post constructs it, with the column    *)
(* defaults of the model class.                                            *)
NewDistribution(id, post_id, account_id) ==
    [id |-> id,
     post_id |-> post_id,
     social_media_account_id |-> account_id,
     platform_post_id |-> None,
     distribution_status |-> "pending",
     scheduled_for |-> IF posts[post_id].scheduled_for # None
                       THEN posts[post_id].scheduled_for ELSE Some(clock),
     attempted_at |-> None,
     completed_at |-> None,
     error_message |-> None,
     retry_count |-> 0,
     platform_response |-> None,
     created_at |-> clock]

(* Primary keys in insertion order: the k-th selected account, by id.      *)
Rank(S, a) == Cardinality({b \in S : b < a})

(* What a route returns: jsonify(...) and the HTTP code. op and target are *)
(* the route and the id in its URL; keys are the keys of the JSON object,  *)
(* error its error text, distributions the ids of the rows it carries and  *)
(* count the number it reports.                                            *)
Response(op, target, code, keys, error, ids, count) ==
    [op |-> op, target |-> target, code |-> code, keys |-> keys,
     error |-> error, distributions |-> ids, count |-> count]

(* jsonify({'error': ...}), code                                           *)
ErrorResponse(op, target, error, code) ==
    Response(op, target, code, {"error"}, error, {}, 0)

(* publish_post without the check for an empty selection.                  *)
publish_post_NoEmptyCheck(user_id, post_id, platform_ids, fault) ==
    LET selected == SelectedAccounts(user_id, platform_ids)
        created == {NewDistribution(next_id + Rank(selected, a), post_id, a) :
                        a \in selected}
    IN
    /\ UNCHANGED <<clock, accounts>>
    /\ IF fault THEN
            /\ resp' = ErrorResponse("publish", post_id,
                                   "Failed to publish post", 500)
            /\ UNCHANGED <<posts, dists, next_id>>
       ELSE IF ~OwnedPost(user_id, post_id) THEN
            /\ resp' = ErrorResponse("publish", post_id,
                                   "Post not found", 404)
            /\ UNCHANGED <<posts, dists, next_id>>
       ELSE IF platform_ids = <<>> THEN
            /\ resp' = ErrorResponse("publish", post_id,
                                   "No platforms selected", 400)
            /\ UNCHANGED <<posts, dists, next_id>>
       ELSE
            /\ next_id + Cardinality(selected) - 1 <= MaxDists
            /\ dists' = dists \cup created
            /\ next_id' = next_id + Cardinality(selected)
            /\ posts' = [posts EXCEPT ![post_id].status =
                            IF posts[post_id].scheduled_for # None
                            THEN "scheduled" ELSE "publishing"]
            /\ resp' = Response("publish", post_id, 200,
                                {"message", "distributions"}, "",
                                {d.id : d \in created}, Cardinality(selected))

(* publish_post with one row for every entry of the list that names a     *)
(* selected account, instead of one for every account the query returns.   *)
publish_post_PerListEntry(user_id, post_id, platform_ids, fault) ==
    LET selected == SelectedAccounts(user_id, platform_ids)
        entries == {i \in DOMAIN platform_ids : platform_ids[i] \in selected}
        created == {NewDistribution(next_id + Rank(entries, i), post_id,
                                    platform_ids[i]) : i \in entries}
    IN
    /\ UNCHANGED <<clock, accounts>>
    /\ IF fault THEN
            \* an exception before or in db.session.commit(): rollback, 500
            /\ resp' = ErrorResponse("publish", post_id,
                                   "Failed to publish post", 500)
            /\ UNCHANGED <<posts, dists, next_id>>
       ELSE IF ~OwnedPost(user_id, post_id) THEN
            /\ resp' = ErrorResponse("publish", post_id,
                                   "Post not found", 404)
            /\ UNCHANGED <<posts, dists, next_id>>
       ELSE IF platform_ids = <<>> THEN
            /\ resp' = ErrorResponse("publish", post_id,
                                   "No platforms selected", 400)
            /\ UNCHANGED <<posts, dists, next_id>>
       ELSE IF selected = {} THEN
            /\ resp' = ErrorResponse("publish", post_id,
                                   "No active accounts found", 400)
            /\ UNCHANGED <<posts, dists, next_id>>
       ELSE
            /\ next_id + Cardinality(entries) - 1 <= MaxDists
            /\ dists' = dists \cup created
            /\ next_id' = next_id + Cardinality(entries)
            /\ posts' = [posts EXCEPT ![post_id].status =
                            IF posts[post_id].scheduled_for # None
                            THEN "scheduled" ELSE "publishing"]
            /\ resp' = Response("publish", post_id, 200,
                                {"message", "distributions"}, "",
                                {d.id : d \in created}, Cardinality(selected))

(* publish_post that replaces the rows the post already has on the         *)
(* selected accounts.                                                      *)
publish_post_Upsert(user_id, post_id, platform_ids, fault) ==
    LET selected == SelectedAccounts(user_id, platform_ids)
        created == {NewDistribution(next_id + Rank(selected, a), post_id, a) :
                        a \in selected}
    IN
    /\ UNCHANGED <<clock, accounts>>
    /\ IF fault THEN
            \* an exception before or in db.session.commit(): rollback, 500
            /\ resp' = ErrorResponse("publish", post_id,
                                   "Failed to publish post", 500)
            /\ UNCHANGED <<posts, dists, next_id>>
       ELSE IF ~OwnedPost(user_id, post_id) THEN
            /\ resp' = ErrorResponse("publish", post_id,
                                   "Post not found", 404)
            /\ UNCHANGED <<posts, dists, next_id>>
       ELSE IF platform_ids = <<>> THEN
            /\ resp' = ErrorResponse("publish", post_id,
                                   "No platforms selected", 400)
            /\ UNCHANGED <<posts, dists, next_id>>
       ELSE IF selected = {} THEN
            /\ resp' = ErrorResponse("publish", post_id,
                                   "No active accounts found", 400)
            /\ UNCHANGED <<posts, dists, next_id>>
       ELSE
            /\ next_id + Cardinality(selected) - 1 <= MaxDists
            /\ dists' = {d \in dists : ~(/\ d.post_id = post_id
                                          /\ d.social_media_account_id
                                                \in selected)}
                        \cup created
            /\ next_id' = next_id + Cardinality(selected)
            /\ posts' = [posts EXCEPT ![post_id].status =
                            IF posts[post_id].scheduled_for # None
                            THEN "scheduled" ELSE "publishing"]
            /\ resp' = Response("publish", post_id, 200,
                                {"message", "distributions"}, "",
                                {d.id : d \in created}, Cardinality(selected))

(* publish_post                                                            *)
publish_post(user_id, post_id, platform_ids, fault) ==
    LET selected == SelectedAccounts(user_id, platform_ids)
        created == {NewDistribution(next_id + Rank(selected, a), post_id, a) :
                        a \in selected}
    IN
    /\ UNCHANGED <<clock, accounts>>
    /\ IF fault THEN
            \* an exception before or in db.session.commit(): rollback, 500
            /\ resp' = ErrorResponse("publish", post_id,
                                   "Failed to publish post", 500)
            /\ UNCHANGED <<posts, dists, next_id>>
       ELSE IF ~OwnedPost(user_id, post_id) THEN
            /\ resp' = ErrorResponse("publish", post_id,
                                   "Post not found", 404)
            /\ UNCHANGED <<posts, dists, next_id>>
       ELSE IF platform_ids = <<>> THEN
            /\ resp' = ErrorResponse("publish", post_id,
                                   "No platforms selected", 400)
            /\ UNCHANGED <<posts, dists, next_id>>
       ELSE IF selected = {} THEN
            /\ resp' = ErrorResponse("publish", post_id,
                                   "No active accounts found", 400)
            /\ UNCHANGED <<posts, dists, next_id>>
       ELSE
            /\ next_id + Cardinality(selected) - 1 <= MaxDists
            /\ dists' = dists \cup created
            /\ next_id' = next_id + Cardinality(selected)
            /\ posts' = [posts EXCEPT ![post_id].status =
                            IF posts[post_id].scheduled_for # None
                            THEN "scheduled" ELSE "publishing"]
            /\ resp' = Response("publish", post_id, 200,
                                {"message", "distributions"}, "",
                                {d.id : d \in created}, Cardinality(selected))

(* publish_post when the exception is raised after db.session.commit(),    *)
(* while the response is built: dist.to_dict() reloads the rows the commit *)
(* expired. The rollback of the handler finds nothing to undo, and the     *)
(* answer is 500.                                                          *)
publish_post_fault_after_commit(user_id, post_id, platform_ids) ==
    LET selected == SelectedAccounts(user_id, platform_ids)
        created == {NewDistribution(next_id + Rank(selected, a), post_id, a) :
                        a \in selected}
    IN
    /\ OwnedPost(user_id, post_id)
    /\ platform_ids # <<>>
    /\ selected # {}
    /\ next_id + Cardinality(selected) - 1 <= MaxDists
    /\ UNCHANGED <<clock, accounts>>
    /\ dists' = dists \cup created
    /\ next_id' = next_id + Cardinality(selected)
    /\ posts' = [posts EXCEPT ![post_id].status =
                    IF posts[post_id].scheduled_for # None
                    THEN "scheduled" ELSE "publishing"]
    /\ resp' = ErrorResponse("publish", post_id,
                             "Failed to publish post", 500)

(* OwnedDistribution without the join on the post's owner.                 *)
OwnedDistribution_AnyUser(user_id, distribution_id) ==
    {d \in dists : d.id = distribution_id}

(* The join of retry_distribution: the row with this id whose post belongs *)
(* to the requester.                                                       *)
OwnedDistribution(user_id, distribution_id) ==
    {d \in dists : /\ d.id = distribution_id
                   /\ posts[d.post_id] # NoRow
                   /\ posts[d.post_id].user_id = user_id}

(* Retryable with 'completed' accepted as well.                            *)
Retryable_WithCompleted == {"failed", "error", "completed"}

(* The statuses retry_distribution accepts.                                *)
Retryable == {"failed", "error"}

(* ResetForRetry that also forgets the platform's last response.           *)
ResetForRetry_ClearsResponse(d) ==
    [d EXCEPT !.distribution_status = "pending",
              !.attempted_at = None,
              !.error_message = None,
              !.platform_response = None,
              !.retry_count = d.retry_count + 1]

(* ResetForRetry that counts the retry twice.                              *)
ResetForRetry_CountsTwice(d) ==
    [d EXCEPT !.distribution_status = "pending",
              !.attempted_at = None,
              !.error_message = None,
              !.retry_count = d.retry_count + 2]

(* ResetForRetry without the reset of attempted_at.                        *)
ResetForRetry_KeepsAttempt(d) ==
    [d EXCEPT !.distribution_status = "pending",
              !.error_message = None,
              !.retry_count = d.retry_count + 1]

(* "Reset distribution for retry": the assignments of retry_distribution.  *)
ResetForRetry(d) ==
    [d EXCEPT !.distribution_status = "pending",
              !.attempted_at = None,
              !.error_message = None,
              !.retry_count = d.retry_count + 1]

(* The retries made so far, over all rows: what MaxRetry bounds.           *)
Retries ==
    Cardinality({x \in (1..MaxDists) \X (1..MaxRetry) :
                    \E d \in dists : d.id = x[1] /\ x[2] <= d.retry_count})

(* retry_distribution                                                      *)
retry_distribution(user_id, distribution_id, fault) ==
    LET found == OwnedDistribution(user_id, distribution_id) IN
    /\ UNCHANGED <<clock, accounts, posts, next_id>>
    /\ IF fault THEN
            /\ resp' = ErrorResponse("retry", distribution_id,
                                   "Failed to retry distribution", 500)
            /\ UNCHANGED dists
       ELSE IF found = {} THEN
            /\ resp' = ErrorResponse("retry", distribution_id,
                                   "Distribution not found", 404)
            /\ UNCHANGED dists
       ELSE LET d == CHOOSE x \in found : TRUE IN
            IF d.distribution_status \notin Retryable THEN
                /\ resp' = ErrorResponse("retry", distribution_id,
                                   "Can only retry failed distributions", 400)
                /\ UNCHANGED dists
            ELSE
                /\ Retries < MaxRetry
                /\ dists' = (dists \ {d}) \cup {ResetForRetry(d)}
                /\ resp' = Response("retry", distribution_id, 200,
                                    {"message", "distribution"}, "",
                                    {d.id}, 0)

(* retry_distribution when the exception is raised after the commit, in    *)
(* distribution.to_dict(): the reset is stored, and the answer is 500.     *)
retry_distribution_fault_after_commit(user_id, distribution_id) ==
    /\ UNCHANGED <<clock, accounts, posts, next_id>>
    /\ \E d \in OwnedDistribution(user_id, distribution_id) :
        /\ d.distribution_status \in Retryable
        /\ Retries < MaxRetry
        /\ dists' = (dists \ {d}) \cup {ResetForRetry(d)}
        /\ resp' = ErrorResponse("retry", distribution_id,
                                 "Failed to retry distribution", 500)

(* get_post_distributions                                                  *)
get_post_distributions(user_id, post_id, fault) ==
    /\ UNCHANGED <<clock, accounts, posts, dists, next_id>>
    /\ IF fault THEN resp' = ErrorResponse("list", post_id,
                                   "Failed to fetch distributions", 500)
       ELSE IF ~OwnedPost(user_id, post_id) THEN
            resp' = ErrorResponse("list", post_id,
                                   "Post not found", 404)
       ELSE LET found == {d \in dists : d.post_id = post_id} IN
            resp' = Response("list", post_id, 200,
                             {"distributions", "total"}, "",
                             {d.id : d \in found}, Cardinality(found))

(* The request bodies of update_post the model draws: which keys the JSON  *)
(* object has and, for scheduled_for, an empty value or a time.            *)
UpdatePostData ==
    [keys : SUBSET {"status", "scheduled_for"},
     status : {"draft"},
     scheduled_for : {None, Some(SchedAt)}]

(* update_post                                                             *)
update_post(user_id, post_id, data, fault) ==
    /\ UNCHANGED <<clock, accounts, dists, next_id>>
    /\ IF fault THEN
            /\ resp' = ErrorResponse("update_post", post_id,
                                   "Failed to update post", 500)
            /\ UNCHANGED posts
       ELSE IF ~OwnedPost(user_id, post_id) THEN
            /\ resp' = ErrorResponse("update_post", post_id,
                                   "Post not found", 404)
            /\ UNCHANGED posts
       ELSE IF data.keys = {} THEN
            /\ resp' = ErrorResponse("update_post", post_id,
                                   "No data provided", 400)
            /\ UNCHANGED posts
       ELSE
            /\ posts' = [posts EXCEPT ![post_id] =
                  [@ EXCEPT !.status = IF "status" \in data.keys
                                       THEN data.status ELSE @,
                            !.scheduled_for = IF "scheduled_for" \in data.keys
                                              THEN data.scheduled_for ELSE @]]
            /\ resp' = Response("update_post", post_id, 200,
                                {"message", "post"}, "", {}, 0)

(* delete_post with the bulk delete not filtered by post_id.                *)
delete_post_AllRows(user_id, post_id, fault) ==
    /\ UNCHANGED <<clock, accounts, next_id>>
    /\ IF fault THEN
            /\ resp' = ErrorResponse("delete_post", post_id,
                                   "Failed to delete post", 500)
            /\ UNCHANGED <<posts, dists>>
       ELSE IF ~OwnedPost(user_id, post_id) THEN
            /\ resp' = ErrorResponse("delete_post", post_id,
                                   "Post not found", 404)
            /\ UNCHANGED <<posts, dists>>
       ELSE
            /\ dists' = {}
            /\ posts' = [posts EXCEPT ![post_id] = NoRow]
            /\ resp' = Response("delete_post", post_id, 200,
                                {"message"}, "", {}, 0)

(* delete_post                                                             *)
delete_post(user_id, post_id, fault) ==
    /\ UNCHANGED <<clock, accounts, next_id>>
    /\ IF fault THEN
            /\ resp' = ErrorResponse("delete_post", post_id,
                                   "Failed to delete post", 500)
            /\ UNCHANGED <<posts, dists>>
       ELSE IF ~OwnedPost(user_id, post_id) THEN
            /\ resp' = ErrorResponse("delete_post", post_id,
                                   "Post not found", 404)
            /\ UNCHANGED <<posts, dists>>
       ELSE
            /\ dists' = {d \in dists : d.post_id # post_id}
            /\ posts' = [posts EXCEPT ![post_id] = NoRow]
            /\ resp' = Response("delete_post", post_id, 200,
                                {"message"}, "", {}, 0)

(* The request bodies of update_social_account the model draws.            *)
UpdateAccountData ==
    [keys : (SUBSET {"connection_status", "credentials"}) \ {{}},
     connection_status : {"active", "inactive"}]

(* update_social_account                                                   *)
update_social_account(user_id, account_id, data, fault) ==
    /\ UNCHANGED <<clock, posts, dists, next_id>>
    /\ IF fault THEN
            /\ resp' = ErrorResponse("update_account", account_id,
                                   "Failed to update account", 500)
            /\ UNCHANGED accounts
       ELSE IF accounts[account_id] = NoRow
               \/ accounts[account_id].user_id # user_id THEN
            /\ resp' = ErrorResponse("update_account", account_id,
                                   "Account not found", 404)
            /\ UNCHANGED accounts
       ELSE
            /\ accounts' = [accounts EXCEPT ![account_id] =
                  [@ EXCEPT !.connection_status =
                                IF "connection_status" \in data.keys
                                THEN data.connection_status ELSE @,
                            !.authentication_expires_at =
                                IF "credentials" \in data.keys
                                THEN Some(clock + AuthTTL) ELSE @]]
            /\ resp' = Response("update_account", account_id, 200,
                                {"message", "account"}, "", {}, 0)

(* delete_social_account. The flush of db.session.delete(account) sets the *)
(* social_media_account_id of the account's distributions to NULL, which a *)
(* nullable=False column refuses: the commit raises, and the route rolls   *)
(* back and answers 500.                                                   *)
delete_social_account(user_id, account_id, fault) ==
    /\ UNCHANGED <<clock, posts, dists, next_id>>
    /\ IF fault \/ (/\ accounts[account_id] # NoRow
                    /\ accounts[account_id].user_id = user_id
                    /\ \E d \in dists :
                            d.social_media_account_id = account_id) THEN
            /\ resp' = ErrorResponse("delete_account", account_id,
                                   "Failed to delete account", 500)
            /\ UNCHANGED accounts
       ELSE IF accounts[account_id] = NoRow
               \/ accounts[account_id].user_id # user_id THEN
            /\ resp' = ErrorResponse("delete_account", account_id,
                                   "Account not found", 404)
            /\ UNCHANGED accounts
       ELSE
            /\ accounts' = [accounts EXCEPT ![account_id] = NoRow]
            /\ resp' = Response("delete_account", account_id, 200,
                                {"message"}, "", {}, 0)

(* The publishing process the TODOs of publish_post and retry_distribution *)
(* leave to another component: it takes a pending row, marks it            *)
(* publishing, and records the outcome of the remote call.                 *)
dispatch_start(distribution_id) ==
    /\ UNCHANGED <<clock, accounts, posts, next_id, resp>>
    /\ \E d \in dists :
        /\ d.id = distribution_id
        /\ d.distribution_status = "pending"
        /\ dists' = (dists \ {d}) \cup
              {[d EXCEPT !.distribution_status = "publishing",
                         !.attempted_at = Some(clock)]}

dispatch_finish(distribution_id, outcome) ==
    /\ UNCHANGED <<clock, accounts, posts, next_id, resp>>
    /\ \E d \in dists :
        /\ d.id = distribution_id
        /\ d.distribution_status = "publishing"
        /\ dists' = (dists \ {d}) \cup
              {IF outcome = "completed"
               THEN [d EXCEPT !.distribution_status = "completed",
                              !.platform_post_id = Some("remote-id"),
                              !.completed_at = Some(clock),
                              !.platform_response = Some("accepted")]
               ELSE [d EXCEPT !.distribution_status = outcome,
                              !.error_message = Some("remote call failed"),
                              !.platform_response = Some("rejected")]}

(* No route call is in progress: the last response has left.               *)
NoResponse == Response("none", 0, 0, {}, "", {}, 0)

(* The response goes to the caller, and the next request can be taken.     *)
Return ==
    /\ resp # NoResponse
    /\ resp' = NoResponse
    /\ UNCHANGED <<clock, posts, accounts, dists, next_id>>

(* The lists of account ids a publish request may carry: none, one id,    *)
(* two ids in either order, an id twice, another user's account, all.      *)
TargetLists ==
    {<<>>, <<1>>, <<2>>, <<3>>, <<1, 2>>, <<2, 1>>, <<1, 1>>, <<2, 3>>,
     <<1, 2, 3>>}

(* The accounts as add_social_account creates them: user 1 has connected   *)
(* accounts 1 and 2, user 2 account 3, all added one tick before time 0.   *)
InitialAccounts ==
    [a \in AccountIds |->
        [user_id |-> IF a = 3 THEN 2 ELSE 1,
         connection_status |-> "active",
         authentication_expires_at |-> Some(AuthTTL - 1)]]

(* The tables when the requests start: user 1 owns post 1, a draft with or *)
(* without a schedule; account 2 is active or was set inactive by          *)
(* update_social_account; the requests arrive in the tick at               *)
(* which the accounts' authentication expires, or in the one after it.     *)
InitRoutes ==
    /\ clock \in {AuthTTL - 1, AuthTTL}
    /\ \E sched \in {None, Some(SchedAt)} :
        posts = [p \in PostIds |->
                    IF p = 1
                    THEN [user_id |-> 1, status |-> "draft",
                          scheduled_for |-> sched]
                    ELSE NoRow]
    /\ \E st \in {"active", "inactive"} :
        accounts = [InitialAccounts EXCEPT ![2].connection_status = st]
    /\ dists = {}
    /\ next_id = 1
    /\ resp = NoResponse

IdleLimiter ==
    /\ calls_per_minute = 0 /\ calls = <<>> /\ wall = 0 /\ pc = "idle"
    /\ now = 0 /\ wait_time = 0 /\ starts = <<>> /\ invoked = 0
    /\ recorded = 0

IdleClients ==
    /\ page_id = None /\ json_error_is_request_exception = FALSE
    /\ slots = <<>> /\ requests = <<>> /\ result = <<>> /\ log = {}
    /\ instances = <<>> /\ made = <<>>

IdleRace == sessions = <<>>

Init == InitRoutes /\ IdleLimiter /\ IdleClients /\ IdleRace

(* The requests the routes take. An exception inside a try block (fault)   *)
(* is answered the same whoever asks and whatever the body, so it is drawn *)
(* once per route and id; an exception after the commit of publish and of  *)
(* retry is drawn for requests of user 1 that pass the checks.             *)
PublishPost ==
    \/ \E u \in Users, p \in PostIds, ids \in TargetLists :
            publish_post(u, p, ids, FALSE)
    \/ \E p \in PostIds : publish_post(1, p, <<>>, TRUE)
    \/ \E ids \in {<<1>>, <<1, 2>>} :
            publish_post_fault_after_commit(1, 1, ids)

RetryDistribution ==
    \/ \E u \in Users, id \in 1..MaxDists : retry_distribution(u, id, FALSE)
    \/ \E id \in 1..MaxDists : retry_distribution(1, id, TRUE)
    \/ \E id \in 1..MaxDists : retry_distribution_fault_after_commit(1, id)

GetPostDistributions ==
    \/ \E u \in Users, p \in PostIds : get_post_distributions(u, p, FALSE)
    \/ \E p \in PostIds : get_post_distributions(1, p, TRUE)

UpdatePost ==
    \/ \E u \in Users, p \in PostIds :
        \E data \in {x \in UpdatePostData : x.keys \subseteq {"status"}
                                             /\ x.scheduled_for = None} :
            update_post(u, p, data, FALSE)
    \/ \E p \in PostIds, data \in {x \in UpdatePostData : x.keys = {}
                                             /\ x.scheduled_for = None} :
            update_post(1, p, data, TRUE)

DeletePost ==
    \/ \E u \in Users, p \in PostIds : delete_post(u, p, FALSE)
    \/ \E p \in PostIds : delete_post(1, p, TRUE)

(* The account routes, on the second account of user 1: its owner or the   *)
(* other user sets its connection_status, or deletes it.                   *)
UpdateSocialAccount ==
    \/ \E u \in Users :
        \E data \in {x \in UpdateAccountData :
                        x.keys = {"connection_status"}} :
            update_social_account(u, 2, data, FALSE)
    \/ \E data \in {x \in UpdateAccountData :
                        x.keys = {"connection_status"}
                        /\ x.connection_status = "active"} :
            update_social_account(1, 2, data, TRUE)

DeleteSocialAccount ==
    \/ \E u \in Users : delete_social_account(u, 2, FALSE)
    \/ delete_social_account(1, 2, TRUE)

DispatchStart == \E id \in 1..MaxDists : dispatch_start(id)

DispatchFinish ==
    \E id \in 1..MaxDists, outcome \in {"completed", "failed", "error"} :
        dispatch_finish(id, outcome)

(* A step of the routes: one request is taken when the previous response   *)
(* has left, and nothing else of the process changes.                      *)
Publish ==
    resp = NoResponse /\ PublishPost /\ UNCHANGED <<limiterVars, clientVars, raceVars>>
Retry ==
    resp = NoResponse /\ RetryDistribution
    /\ UNCHANGED <<limiterVars, clientVars, raceVars>>
List ==
    resp = NoResponse /\ GetPostDistributions
    /\ UNCHANGED <<limiterVars, clientVars, raceVars>>
PostUpdate ==
    resp = NoResponse /\ UpdatePost /\ UNCHANGED <<limiterVars, clientVars, raceVars>>
PostDelete ==
    resp = NoResponse /\ DeletePost /\ UNCHANGED <<limiterVars, clientVars, raceVars>>
AccountUpdate ==
    resp = NoResponse /\ UpdateSocialAccount
    /\ UNCHANGED <<limiterVars, clientVars, raceVars>>
AccountDelete ==
    resp = NoResponse /\ DeleteSocialAccount
    /\ UNCHANGED <<limiterVars, clientVars, raceVars>>
DispatchBegin ==
    resp = NoResponse /\ DispatchStart /\ UNCHANGED <<limiterVars, clientVars, raceVars>>
DispatchEnd ==
    resp = NoResponse /\ DispatchFinish
    /\ UNCHANGED <<limiterVars, clientVars, raceVars>>
Respond == Return /\ UNCHANGED <<limiterVars, clientVars, raceVars>>

Next ==
    \/ Publish
    \/ Retry
    \/ List
    \/ DispatchBegin
    \/ DispatchEnd
    \/ Respond

Spec == Init /\ [][Next]_vars

(* Every operation on the tables, with post update, post delete, account   *)
(* update and account delete, on one starting context: post 1 is a draft   *)
(* of user 1 without a schedule, and all accounts are active and           *)
(* authenticated.                                                          *)
InitOps ==
    /\ InitRoutes
    /\ clock = AuthTTL - 1
    /\ posts[1].scheduled_for = None
    /\ accounts = InitialAccounts
    /\ IdleLimiter /\ IdleClients /\ IdleRace

NextOps ==
    \/ Publish
    \/ Retry
    \/ List
    \/ PostUpdate
    \/ PostDelete
    \/ AccountUpdate
    \/ AccountDelete
    \/ DispatchBegin
    \/ DispatchEnd
    \/ Respond

SpecOps == InitOps /\ [][NextOps]_vars

-----------------------------------------------------------------------------
(* retry_distribution under concurrent requests. Each request runs in its  *)
(* own database session: it loads the row, decides on the copy it loaded,  *)
(* and writes the columns it assigned when it commits.                     *)

MaxSessions == 2

Requests == 1..MaxSessions

NotStarted ==
    [pc |-> "start", user_id |-> 0, target |-> 0, loaded |-> None,
     code |-> 0]

(* The query of retry_distribution and its "if not distribution": the      *)
(* session loads the row as the table holds it now.                        *)
retry_distribution_query(r, user_id, distribution_id) ==
    LET found == OwnedDistribution(user_id, distribution_id) IN
    /\ sessions[r].pc = "start"
    /\ sessions' = [sessions EXCEPT ![r] =
            IF found = {}
            THEN [pc |-> "done", user_id |-> user_id,
                  target |-> distribution_id, loaded |-> None, code |-> 404]
            ELSE [pc |-> "loaded", user_id |-> user_id,
                  target |-> distribution_id,
                  loaded |-> Some(CHOOSE x \in found : TRUE), code |-> 0]]
    /\ UNCHANGED routeVars

(* The status check, the assignments and db.session.commit() of            *)
(* retry_distribution: the UPDATE sets the row's columns to the values     *)
(* computed from the copy the session loaded.                              *)
retry_distribution_commit(r) ==
    LET mine == sessions[r].loaded[1] IN
    /\ sessions[r].pc = "loaded"
    /\ IF mine.distribution_status \notin Retryable THEN
            /\ sessions' = [sessions EXCEPT ![r].pc = "done",
                                            ![r].code = 400]
            /\ UNCHANGED dists
       ELSE
            /\ dists' = {IF d.id = mine.id
                         THEN [d EXCEPT
                                !.distribution_status =
                                    ResetForRetry(mine).distribution_status,
                                !.attempted_at =
                                    ResetForRetry(mine).attempted_at,
                                !.error_message =
                                    ResetForRetry(mine).error_message,
                                !.retry_count =
                                    ResetForRetry(mine).retry_count]
                         ELSE d : d \in dists}
            /\ sessions' = [sessions EXCEPT ![r].pc = "done",
                                            ![r].code = 200]
    /\ UNCHANGED <<clock, posts, accounts, next_id, resp>>

(* Post 1 of user 1 was published to accounts 1 and 2, and both            *)
(* Distributions have failed, one of them with an error.                   *)
InitRace ==
    /\ clock = AuthTTL - 1
    /\ posts = [p \in PostIds |->
                    IF p = 1
                    THEN [user_id |-> 1, status |-> "publishing",
                          scheduled_for |-> None]
                    ELSE NoRow]
    /\ accounts = InitialAccounts
    /\ \E st \in {"failed", "error"} :
        dists = {[id |-> a, post_id |-> 1, social_media_account_id |-> a,
                  platform_post_id |-> None,
                  distribution_status |-> IF a = 1 THEN st ELSE "failed",
                  scheduled_for |-> Some(clock),
                  attempted_at |-> Some(clock),
                  completed_at |-> None,
                  error_message |-> Some("remote call failed"),
                  retry_count |-> 0,
                  platform_response |-> Some("rejected"),
                  created_at |-> clock] : a \in {1, 2}}
    /\ next_id = 3
    /\ resp = NoResponse
    /\ sessions = [r \in Requests |-> NotStarted]
    /\ IdleLimiter /\ IdleClients

RetryQuery ==
    /\ \E r \in Requests, u \in Users, id \in {1, 2} :
            retry_distribution_query(r, u, id)
    /\ UNCHANGED <<limiterVars, clientVars>>

RetryCommit ==
    /\ \E r \in Requests : retry_distribution_commit(r)
    /\ UNCHANGED <<limiterVars, clientVars>>

NextRace == RetryQuery \/ RetryCommit

SpecRace == InitRace /\ [][NextRace]_vars

(* The routes alone, on tables that hold two posts of user 1: post 1 is a  *)
(* draft, and post 2 was published to account 2 before, its distribution   *)
(* having failed or completed since.                                       *)
InitCascade ==
    /\ clock = AuthTTL - 1
    /\ posts = [p \in PostIds |->
                    [user_id |-> 1,
                     status |-> IF p = 2 THEN "publishing" ELSE "draft",
                     scheduled_for |-> None]]
    /\ accounts = InitialAccounts
    /\ \E st \in {"failed", "completed"} :
        dists = {[id |-> 1, post_id |-> 2, social_media_account_id |-> 2,
                  platform_post_id |-> IF st = "completed"
                                       THEN Some("remote-id") ELSE None,
                  distribution_status |-> st,
                  scheduled_for |-> Some(clock),
                  attempted_at |-> Some(clock),
                  completed_at |-> IF st = "completed"
                                   THEN Some(clock) ELSE None,
                  error_message |-> IF st = "completed" THEN None
                                    ELSE Some("remote call failed"),
                  retry_count |-> 0,
                  platform_response |-> IF st = "completed"
                                        THEN Some("accepted")
                                        ELSE Some("rejected"),
                  created_at |-> clock]}
    /\ next_id = 2
    /\ resp = NoResponse
    /\ IdleLimiter /\ IdleClients /\ IdleRace

NextCascade ==
    \/ Publish
    \/ Retry
    \/ List
    \/ PostUpdate
    \/ PostDelete
    \/ AccountUpdate
    \/ AccountDelete
    \/ Respond

SpecCascade == InitCascade /\ [][NextCascade]_vars

-----------------------------------------------------------------------------
(* The RateLimiter: src/services/api_client.py                             *)

MaxRate == 2
MaxCalls == 4

(* timedelta(minutes=1), in seconds.                                       *)
Minute == 60
(* The 60 of "wait_time = 60 - ...".                                       *)
SleepBase == 60

(* Seconds between the return of one call and the arrival of the next.     *)
Gaps == {0, 1, 59, 60}

(* "Remove calls older than 1 minute"                                      *)
Pruned(cs, t) == SelectSeq(cs, LAMBDA call_time : t - call_time < Minute)

(* min(self.calls), of a list that is not empty.                           *)
oldest_call(cs) == CHOOSE m \in Range(cs) : \A x \in Range(cs) : m <= x

(* WaitTime counted from the newest recorded call.                         *)
WaitTime_SinceNewest(cs, t) == SleepBase - (t - cs[Len(cs)])

(* wait_time = 60 - (now - oldest_call).total_seconds()                    *)
WaitTime(cs, t) == SleepBase - (t - oldest_call(cs))

(* self.calls.append(now) and the return of wait_if_needed, at wall time   *)
(* w, for the call that read the clock at t.                               *)
RecordAndReturn(cs, t, w) ==
    /\ calls' = Append(cs, t)
    /\ recorded' = recorded + 1
    /\ starts' = Append(starts, w)
    /\ wall' = w
    /\ pc' = "idle"

(* wait_if_needed, from its entry to its return or to the start of its     *)
(* sleep; the call arrives gap seconds after the previous call returned.   *)
wait_if_needed(gap) ==
    LET t == wall + gap
        pruned == Pruned(calls, t)
    IN
    /\ pc = "idle"
    /\ invoked < MaxCalls
    /\ invoked' = invoked + 1
    /\ now' = t
    /\ UNCHANGED calls_per_minute
    /\ IF Len(pruned) >= calls_per_minute THEN
            IF pruned = <<>> THEN
                \* min() of an empty list raises ValueError: the call ends
                \* without sleeping and without recording
                /\ calls' = pruned
                /\ wall' = t
                /\ pc' = "idle"
                /\ wait_time' = 0
                /\ UNCHANGED <<recorded, starts>>
            ELSE IF WaitTime(pruned, t) > 0 THEN
                /\ calls' = pruned
                /\ wall' = t
                /\ pc' = "sleeping"
                /\ wait_time' = WaitTime(pruned, t)
                /\ UNCHANGED <<recorded, starts>>
            ELSE
                /\ wait_time' = WaitTime(pruned, t)
                /\ RecordAndReturn(pruned, t, t)
       ELSE
            /\ UNCHANGED wait_time
            /\ RecordAndReturn(pruned, t, t)

(* time.sleep(wait_time) returns, and wait_if_needed appends and returns.  *)
wake ==
    /\ pc = "sleeping"
    /\ RecordAndReturn(calls, now, wall + wait_time)
    /\ UNCHANGED <<calls_per_minute, now, wait_time, invoked>>

IdleRoutes ==
    /\ clock = 0 /\ posts = [p \in PostIds |-> NoRow]
    /\ accounts = [a \in AccountIds |-> NoRow] /\ dists = {} /\ next_id = 1
    /\ resp = NoResponse

(* RateLimiter.__init__, for a limit the caller chooses.                   *)
InitLimiter ==
    /\ calls_per_minute \in 0..MaxRate
    /\ calls = <<>>
    /\ wall = 0 /\ pc = "idle" /\ now = 0 /\ wait_time = 0
    /\ starts = <<>> /\ invoked = 0 /\ recorded = 0
    /\ IdleRoutes /\ IdleClients /\ IdleRace

WaitIfNeeded ==
    (\E gap \in Gaps : wait_if_needed(gap)) /\ UNCHANGED <<routeVars, clientVars, raceVars>>

Wake == wake /\ UNCHANGED <<routeVars, clientVars, raceVars>>

NextLimiter == WaitIfNeeded \/ Wake

(* A sleeping caller is woken: time.sleep returns.                         *)
SpecLimiter == InitLimiter /\ [][NextLimiter]_vars /\ WF_vars(Wake)

-----------------------------------------------------------------------------
(* The platform clients and their request funnel:                          *)
(* src/services/api_client.py                                              *)

MaxRequests == 2

Clients == {"facebook", "twitter", "linkedin"}
Operations == {"authenticate", "post_content", "get_user_info"}

(* The rate_limit each adapter passes to BasePlatformClient.__init__.      *)
FacebookRateLimit == 200
TwitterRateLimit == 300
LinkedInRateLimit == 500

rate_limit(c) ==
    CASE c = "facebook" -> FacebookRateLimit
      [] c = "twitter" -> TwitterRateLimit
      [] c = "linkedin" -> LinkedInRateLimit

(* What the remote end can do with one request: no response at all, or a   *)
(* response with a status, a content-type header and a body.               *)
Bodies == {"{\"id\": \"123\"}", "[1]", "Service Unavailable"}
TransportFailure == [kind |-> "transport"]
HttpResponses ==
    [kind : {"http"}, status_code : {200, 404, 503},
     content_type : {"application/json", "text/html"}, text : Bodies]
Outcomes == {TransportFailure} \cup HttpResponses
NoExchange == [kind |-> "none"]

(* json.loads of a body: whether it parses, and the Python type it gives.  *)
JsonType(text) ==
    CASE text = "{\"id\": \"123\"}" -> "dict"
      [] text = "[1]" -> "list"
      [] OTHER -> "invalid"

(* response.json() of a body that parses, and response.text.               *)
JsonValue(text) == [type |-> JsonType(text), of |-> text]
TextValue(text) == [type |-> "str", of |-> text]
EmptyDict == [type |-> "dict", of |-> "{}"]

(* APIResponse.__init__: platform_response or {}                           *)
APIResponse(success, data, error, status_code, platform_response) ==
    [success |-> success, data |-> data, error |-> error,
     status_code |-> status_code,
     platform_response |-> IF platform_response = None THEN EmptyDict
                           ELSE platform_response[1]]

(* What an operation hands to its caller: a response, or an exception.     *)
Returned(response) == [kind |-> "response", response |-> response]
Raised(exception) == [kind |-> "raised", exception |-> exception]

(* Nothing was returned: the call was not made.                            *)
NoReturn == [kind |-> "none"]

(* f"Request failed: {str(e)}"                                             *)
RequestFailed(what) == [format |-> "Request failed: {e}", e |-> what]

(* The except clause with a transport failure left to propagate.          *)
TransportFailed_Raises == Raised("ConnectionError")

(* except requests.exceptions.RequestException: the failure response.      *)
TransportFailed ==
    Returned(APIResponse(FALSE, None, Some(RequestFailed("transport")),
                         None, None))

(* HttpSuccess with platform_response set from any body that parses.       *)
HttpSuccess_AnyJson(o) ==
    LET data == IF JsonType(o.text) = "invalid" THEN TextValue(o.text)
                ELSE JsonValue(o.text)
    IN Returned(APIResponse(TRUE, Some(data), None, Some(o.status_code),
                            IF data.type # "str" THEN Some(data)
                            ELSE None))

(* "Try to parse JSON response" and the success response.                  *)
HttpSuccess(o) ==
    LET data == IF JsonType(o.text) = "invalid" THEN TextValue(o.text)
                ELSE JsonValue(o.text)
    IN Returned(APIResponse(TRUE, Some(data), None, Some(o.status_code),
                            IF data.type = "dict" THEN Some(data)
                            ELSE None))

(* The classification of _make_request, after wait_if_needed and the       *)
(* request: what the remote end did with the request is o.                 *)
make_request(o) ==
    IF o.kind = "transport" THEN TransportFailed
    ELSE IF o.status_code >= 400 THEN
        IF o.content_type = "application/json" THEN
            IF JsonType(o.text) = "invalid" THEN
                \* response.json() raises inside the try block
                IF json_error_is_request_exception
                THEN Returned(APIResponse(FALSE, None,
                         Some(RequestFailed("JSONDecodeError")), None, None))
                ELSE Raised("JSONDecodeError")
            ELSE Returned(APIResponse(FALSE, None,
                     Some([format |-> "HTTP {status_code}: {text}",
                           status_code |-> o.status_code, text |-> o.text]),
                     Some(o.status_code), Some(JsonValue(o.text))))
        ELSE Returned(APIResponse(FALSE, None,
                 Some([format |-> "HTTP {status_code}: {text}",
                       status_code |-> o.status_code, text |-> o.text]),
                 Some(o.status_code), None))
    ELSE HttpSuccess(o)

(* The request each operation of each adapter sends.                       *)
UserInfoRequest(c) ==
    CASE c = "facebook" -> <<c, "GET", "/me">>
      [] c = "twitter" -> <<c, "GET", "/users/me">>
      [] c = "linkedin" -> <<c, "GET", "/people/~">>

PostRequest(c) ==
    CASE c = "facebook" -> <<c, "POST", "/{page_id}/feed">>
      [] c = "twitter" -> <<c, "POST", "/tweets">>
      [] c = "linkedin" -> <<c, "POST", "/ugcPosts">>

(* The media_files a caller passes to post_content: none, or one file.     *)
MediaLists == {<<>>, <<"photo.png">>}

(* logger.info(f"Media files provided but not yet implemented: ...")       *)
MediaNotice == "Media files provided but not yet implemented"

(* "if media_files: logger.info(...)", of Facebook and Twitter.            *)
media_log(media_files) == IF media_files # <<>> THEN {MediaNotice} ELSE {}

(* OneRequest with the slot taken only when the remote end answered.       *)
OneRequest_SlotWhenAnswered(c, op, req, o) ==
    /\ Len(requests) + 1 <= MaxRequests
    /\ slots[c] < rate_limit(c)
    /\ slots' = [slots EXCEPT ![c] = IF o.kind = "transport" THEN @
                                     ELSE @ + 1]
    /\ requests' = Append(requests, req)
    /\ result' = [client |-> c, op |-> op, http |-> o,
                  funnel |-> make_request(o), user_info |-> NoReturn,
                  sent |-> <<req>>, out |-> make_request(o)]

(* One pass of client c through _make_request: wait_if_needed takes a slot *)
(* of c's limiter, the session sends the request, and the operation ends   *)
(* with what make_request gives for the remote outcome o.                  *)
OneRequest(c, op, req, o) ==
    /\ Len(requests) + 1 <= MaxRequests
    /\ slots[c] < rate_limit(c)
    /\ slots' = [slots EXCEPT ![c] = @ + 1]
    /\ requests' = Append(requests, req)
    /\ result' = [client |-> c, op |-> op, http |-> o,
                  funnel |-> make_request(o), user_info |-> NoReturn,
                  sent |-> <<req>>, out |-> make_request(o)]

(* UserInfoFailure as a new failure response in place of the one received. *)
UserInfoFailure_Rewrapped(user_info) ==
    Returned(APIResponse(FALSE, None, Some(RequestFailed("user info")),
                         None, None))

(* "if not user_info.success: return user_info"                            *)
UserInfoFailure(user_info) == user_info

(* LinkedInClient.post_content: get_user_info first, then the post. The   *)
(* method does not look at media_files.                                    *)
linkedin_post_content(o1, o2, media_files) ==
    LET c == "linkedin"
        user_info == make_request(o1)
    IN
    /\ slots[c] < rate_limit(c)
    /\ log' = {}
    /\ IF user_info.kind = "raised" THEN
            /\ Len(requests) + 1 <= MaxRequests
            /\ slots' = [slots EXCEPT ![c] = @ + 1]
            /\ requests' = Append(requests, UserInfoRequest(c))
            /\ result' = [client |-> c, op |-> "post_content", http |-> o1,
                          funnel |-> user_info, user_info |-> user_info,
                          sent |-> <<UserInfoRequest(c)>>,
                          out |-> user_info]
       ELSE IF ~user_info.response.success THEN
            /\ Len(requests) + 1 <= MaxRequests
            /\ slots' = [slots EXCEPT ![c] = @ + 1]
            /\ requests' = Append(requests, UserInfoRequest(c))
            /\ result' = [client |-> c, op |-> "post_content", http |-> o1,
                          funnel |-> user_info, user_info |-> user_info,
                          sent |-> <<UserInfoRequest(c)>>,
                          out |-> UserInfoFailure(user_info)]
       ELSE IF user_info.response.data[1].type # "dict" THEN
            \* user_info.data.get('id') of a str or a list: AttributeError
            /\ Len(requests) + 1 <= MaxRequests
            /\ slots' = [slots EXCEPT ![c] = @ + 1]
            /\ requests' = Append(requests, UserInfoRequest(c))
            /\ result' = [client |-> c, op |-> "post_content", http |-> o1,
                          funnel |-> user_info, user_info |-> user_info,
                          sent |-> <<UserInfoRequest(c)>>,
                          out |-> Raised("AttributeError")]
       ELSE
            /\ Len(requests) + 2 <= MaxRequests
            /\ slots[c] + 1 < rate_limit(c)
            /\ slots' = [slots EXCEPT ![c] = @ + 2]
            /\ requests' = requests \o <<UserInfoRequest(c), PostRequest(c)>>
            /\ result' = [client |-> c, op |-> "post_content", http |-> o2,
                          funnel |-> make_request(o2),
                          user_info |-> user_info,
                          sent |-> <<UserInfoRequest(c), PostRequest(c)>>,
                          out |-> make_request(o2)]

(* facebook_post_content with the page id looked at only after the         *)
(* limiter has been passed.                                                *)
facebook_post_content_SlotFirst(o, media_files) ==
    IF page_id = None THEN
        /\ log' = {}
        /\ result' = [client |-> "facebook", op |-> "post_content",
                      http |-> NoExchange, funnel |-> NoReturn,
                      user_info |-> NoReturn, sent |-> <<>>,
                      out |-> Returned(APIResponse(FALSE, None,
                                 Some("Page ID required for posting"),
                                 None, None))]
        /\ slots' = [slots EXCEPT !["facebook"] = @ + 1]
        /\ UNCHANGED requests
    ELSE /\ log' = media_log(media_files)
         /\ OneRequest("facebook", "post_content", PostRequest("facebook"), o)

(* FacebookClient.post_content                                             *)
facebook_post_content(o, media_files) ==
    IF page_id = None THEN
        /\ log' = {}
        /\ result' = [client |-> "facebook", op |-> "post_content",
                      http |-> NoExchange, funnel |-> NoReturn,
                      user_info |-> NoReturn, sent |-> <<>>,
                      out |-> Returned(APIResponse(FALSE, None,
                                 Some("Page ID required for posting"),
                                 None, None))]
        /\ UNCHANGED <<slots, requests>>
    ELSE /\ log' = media_log(media_files)
         /\ OneRequest("facebook", "post_content", PostRequest("facebook"), o)

(* authenticate, get_user_info, and the post_content of Twitter: one pass  *)
(* through _make_request.                                                  *)
single_request_operation(c, op, o, media_files) ==
    /\ op = "post_content" => c = "twitter"
    /\ op # "post_content" => media_files = <<>>
    /\ log' = media_log(media_files)
    /\ OneRequest(c, op, IF op = "post_content" THEN PostRequest(c)
                         ELSE UserInfoRequest(c), o)

(* APIClientFactory.create_client for each platform, with credentials that *)
(* have a page id or not, under either behaviour of the HTTP library.      *)
InitClients ==
    /\ page_id \in {None, Some("page")}
    /\ json_error_is_request_exception \in BOOLEAN
    /\ slots = [c \in Clients |-> 0]
    /\ requests = <<>>
    /\ result = [client |-> "none", op |-> "none", http |-> NoExchange,
                 funnel |-> NoReturn, user_info |-> NoReturn,
                 sent |-> <<>>, out |-> NoReturn]
    /\ log = {}
    /\ instances = <<>> /\ made = <<>>
    /\ IdleRoutes /\ IdleLimiter /\ IdleRace

SingleRequestOperation ==
    /\ \E c \in Clients, op \in Operations, o \in Outcomes,
          media_files \in MediaLists :
        single_request_operation(c, op, o, media_files)
    /\ UNCHANGED <<page_id, json_error_is_request_exception>>
    /\ UNCHANGED <<instances, made, routeVars, limiterVars, raceVars>>

FacebookPostContent ==
    /\ \E o \in Outcomes, media_files \in MediaLists :
        facebook_post_content(o, media_files)
    /\ UNCHANGED <<page_id, json_error_is_request_exception>>
    /\ UNCHANGED <<instances, made, routeVars, limiterVars, raceVars>>

LinkedInPostContent ==
    /\ \E o1 \in Outcomes, o2 \in Outcomes, media_files \in MediaLists :
        linkedin_post_content(o1, o2, media_files)
    /\ UNCHANGED <<page_id, json_error_is_request_exception>>
    /\ UNCHANGED <<instances, made, routeVars, limiterVars, raceVars>>

NextClient == SingleRequestOperation \/ FacebookPostContent \/ LinkedInPostContent

SpecClient == InitClients /\ [][NextClient]_vars

-----------------------------------------------------------------------------
(* APIClientFactory and the clients it creates:                            *)
(* src/services/api_client.py                                              *)

MaxInstances == 2
MaxThrough == 2

(* What a caller may pass as platform: a string, None, or a number.        *)
PlatformNames ==
    {[type |-> "str", value |-> v] :
        v \in {"facebook", "Facebook", "twitter", "LINKEDIN", "instagram"}}
    \cup {[type |-> "NoneType"], [type |-> "int"]}

(* str.lower()                                                             *)
lower(v) ==
    CASE v = "Facebook" -> "facebook"
      [] v = "LINKEDIN" -> "linkedin"
      [] OTHER -> v

(* What a caller may pass as credentials: a dict with or without keys,     *)
(* None, or a string.                                                      *)
CredentialValues ==
    {[type |-> "dict", keys |-> {"access_token", "page_id"}],
     [type |-> "dict", keys |-> {}],
     [type |-> "NoneType"], [type |-> "str"]}

(* client_class(credentials): BasePlatformClient.__init__ gives the client *)
(* a new RateLimiter with an empty list of calls, and the adapter then     *)
(* reads credentials.get(...), which only a dict has.                      *)
construct(class, credentials) ==
    IF credentials.type # "dict" THEN Raised("AttributeError")
    ELSE Returned(Some([class |-> class, credentials |-> credentials,
                        calls_per_minute |-> rate_limit(class),
                        calls |-> <<>>]))

(* APIClientFactory.create_client                                          *)
create_client(platform, credentials) ==
    IF platform.type # "str" THEN
        \* platform.lower() is evaluated before the try block
        Raised("AttributeError")
    ELSE IF lower(platform.value) \notin Clients THEN Returned(None)
    ELSE IF construct(lower(platform.value), credentials).kind = "raised"
         THEN Returned(None)
    ELSE construct(lower(platform.value), credentials)

(* A caller creates a client and keeps it when it got one.                 *)
CreateClient(platform, credentials) ==
    /\ Len(instances) < MaxInstances
    /\ made' = [platform |-> platform, credentials |-> credentials,
                out |-> create_client(platform, credentials)]
    /\ instances' =
        IF create_client(platform, credentials).kind = "response"
           /\ create_client(platform, credentials).response # None
        THEN Append(instances,
                    create_client(platform, credentials).response[1])
        ELSE instances
    /\ UNCHANGED <<page_id, json_error_is_request_exception, slots,
                   requests, result, log>>
    /\ UNCHANGED <<routeVars, limiterVars, raceVars>>

(* through with one list of calls shared by every limiter.                 *)
through_SharedCalls(i, gap) ==
    LET t == wall + gap IN
    /\ invoked < MaxThrough
    /\ invoked' = invoked + 1
    /\ instances' = [j \in DOMAIN instances |->
                        [instances[j] EXCEPT
                            !.calls = Append(Pruned(instances[i].calls, t),
                                             t)]]
    /\ wall' = t
    /\ UNCHANGED <<calls_per_minute, calls, pc, now, wait_time, starts,
                   recorded>>
    /\ UNCHANGED <<page_id, json_error_is_request_exception, slots,
                   requests, result, log, made>>
    /\ UNCHANGED <<routeVars, raceVars>>

(* One request through client i: _make_request calls wait_if_needed of the *)
(* client's own rate_limiter, gap seconds after the previous call          *)
(* returned; the limiter prunes, sleeps when its own window is full, and   *)
(* appends the time it read.                                               *)
through(i, gap) ==
    LET t == wall + gap
        pruned == Pruned(instances[i].calls, t)
    IN
    /\ invoked < MaxThrough
    /\ invoked' = invoked + 1
    /\ instances' = [instances EXCEPT ![i].calls = Append(pruned, t)]
    /\ wall' = IF Len(pruned) >= instances[i].calls_per_minute
                  /\ WaitTime(pruned, t) > 0
               THEN t + WaitTime(pruned, t) ELSE t
    /\ UNCHANGED <<calls_per_minute, calls, pc, now, wait_time, starts,
                   recorded>>
    /\ UNCHANGED <<page_id, json_error_is_request_exception, slots,
                   requests, result, log, made>>
    /\ UNCHANGED <<routeVars, raceVars>>

NotMade == [platform |-> [type |-> "NoneType"],
            credentials |-> [type |-> "NoneType"], out |-> NoReturn]

InitFactory ==
    /\ instances = <<>> /\ made = NotMade
    /\ page_id = None /\ json_error_is_request_exception = FALSE
    /\ slots = <<>> /\ requests = <<>> /\ result = <<>> /\ log = {}
    /\ IdleRoutes /\ IdleLimiter /\ IdleRace

Create ==
    \E platform \in PlatformNames, credentials \in CredentialValues :
        CreateClient(platform, credentials)

Through == \E i \in DOMAIN instances, gap \in {0, Minute} : through(i, gap)

NextFactory == Create \/ Through

SpecFactory == InitFactory /\ [][NextFactory]_vars

-----------------------------------------------------------------------------
(* Properties of the routes.                                               *)

(* The distinct targets of a publish request that are accounts of the      *)
(* requester with connection_status 'active'.                              *)
ActiveTargets(u, ids) ==
    {a \in AccountIds :
        /\ \E i \in DOMAIN ids : ids[i] = a
        /\ accounts[a] # NoRow
        /\ accounts[a].user_id = u
        /\ accounts[a].connection_status = "active"}

(* Those of them whose authentication has not expired.                     *)
EligibleTargets(u, ids) ==
    {a \in ActiveTargets(u, ids) : is_authenticated(accounts[a])}

(* C1, as claimed: a publish request on the requester's post creates one   *)
(* Distribution for each target account that is active and authenticated,  *)
(* and none for any other target.                                          *)
C1_CreatedEqualsEligible ==
    [][\A u \in Users, p \in PostIds, ids \in TargetLists :
        (resp'.op = "publish" /\ OwnedPost(u, p)
            /\ publish_post(u, p, ids, FALSE))
        => /\ Cardinality(dists' \ dists)
                = Cardinality(EligibleTargets(u, ids))
           /\ {d.social_media_account_id : d \in dists' \ dists}
                = EligibleTargets(u, ids)]_vars

(* C2, as claimed: when publish returns its Distributions, each of them    *)
(* has been attempted and is completed or failed; none is pending.         *)
C2_DispatchedAtReturn ==
    (resp.op = "publish" /\ resp.code = 200)
    => \A d \in dists :
        d.id \in resp.distributions
        => /\ d.distribution_status \in {"completed", "failed"}
           /\ d.attempted_at # None

C4_RetryResets ==
    [][\A u \in Users, id \in 1..MaxDists :
        (resp'.op = "retry" /\ resp'.target = id
            /\ retry_distribution(u, id, FALSE))
        => \A d \in OwnedDistribution(u, id) :
            d.distribution_status \in {"failed", "error"}
            => /\ resp'.code = 200
               /\ \E e \in dists' :
                    /\ e.id = id
                    /\ e.distribution_status = "pending"
                    /\ e.retry_count = d.retry_count + 1
                    /\ e.error_message = None
                    /\ e.attempted_at = None
               /\ {x \in dists' : x.id # id} = {x \in dists : x.id # id}]_vars

(* A retry succeeded on a row that had been attempted and had failed.      *)
C4_Witness ==
    /\ resp.op = "retry" /\ resp.code = 200
    /\ \E d \in dists :
        /\ d.id = resp.target
        /\ d.distribution_status = "pending"
        /\ d.retry_count = 1
        /\ d.platform_response # None

(* C5: retry of a Distribution that is completed, pending or publishing is *)
(* answered with an error (400 to its owner), changes no row and sends no  *)
(* request to a platform.                                                  *)
C5_RetryRejected ==
    [][\A u \in Users, id \in 1..MaxDists :
        (resp'.op = "retry" /\ resp'.target = id
            /\ retry_distribution(u, id, FALSE))
        => \A d \in dists :
            (d.id = id /\ d.distribution_status
                            \in {"completed", "pending", "publishing"})
            => /\ resp'.code = IF d \in OwnedDistribution(u, id)
                               THEN 400 ELSE 404
               /\ resp'.keys = {"error"}
               /\ dists' = dists
               /\ requests' = requests]_vars

(* A retry of a completed Distribution was rejected.                       *)
C5_Witness ==
    /\ resp.op = "retry" /\ resp.code = 400
    /\ \E d \in dists :
        d.id = resp.target /\ d.distribution_status = "completed"

(* The transitions of the Distribution state machine.                      *)
LegalTransitions ==
    {<<"pending", "publishing">>, <<"publishing", "completed">>,
     <<"publishing", "failed">>, <<"publishing", "error">>,
     <<"failed", "pending">>, <<"error", "pending">>}

(* C6: in every step of every operation, a Distribution that stays keeps   *)
(* its status or moves along a legal transition, a new one is pending, and *)
(* every status is one of the five.                                        *)
C6_LegalTransitionsOnly ==
    [][\A e \in dists' :
        /\ e.distribution_status \in Statuses
        /\ IF \E d \in dists : d.id = e.id
           THEN \A d \in dists :
                    d.id = e.id
                    => \/ d.distribution_status = e.distribution_status
                       \/ <<d.distribution_status, e.distribution_status>>
                            \in LegalTransitions
           ELSE e.distribution_status = "pending"]_vars

(* A Distribution failed, was retried and completed, and its post was      *)
(* updated back to a draft meanwhile.                                      *)
C6_Witness ==
    /\ posts[1] # NoRow /\ posts[1].status = "draft"
    /\ \E d \in dists :
        d.retry_count >= 1 /\ d.distribution_status = "completed"

(* C16: retry_count is never negative; a new Distribution starts at 0; and *)
(* in every step of every operation a Distribution that stays keeps its    *)
(* retry_count, except in a retry request for that Distribution that       *)
(* passed the status check and was committed, which adds exactly one (the  *)
(* answer being 200, or 500 when the response could not be built).         *)
C16_RetryCountOnlyByRetry ==
    /\ \A d \in dists : d.retry_count >= 0
    /\ [][\A e \in dists' :
            /\ e.retry_count >= 0
            /\ IF \E d \in dists : d.id = e.id
               THEN \A d \in dists :
                        d.id = e.id
                        => \/ e.retry_count = d.retry_count
                           \/ /\ e.retry_count = d.retry_count + 1
                              /\ resp = NoResponse
                              /\ resp'.op = "retry"
                              /\ resp'.code \in {200, 500}
                              /\ resp'.target = d.id
                              /\ d.distribution_status \in {"failed", "error"}
                              /\ e.distribution_status = "pending"
               ELSE e.retry_count = 0]_vars

(* A retried Distribution was dispatched again and failed again, and the   *)
(* post was published once more meanwhile.                                 *)
C16_Witness ==
    /\ \E d \in dists :
        d.retry_count = 1 /\ d.distribution_status \in {"failed", "error"}
    /\ \E d \in dists : d.retry_count = 0 /\ d.id > 1

(* C17: in every state, a Distribution has completed_at set exactly when   *)
(* its status is 'completed', and platform_post_id set only then.          *)
C17_CompletedAtIffCompleted ==
    \A d \in dists :
        /\ (d.completed_at # None) <=> (d.distribution_status = "completed")
        /\ (d.platform_post_id # None)
                => (d.distribution_status = "completed")

(* One Distribution completed, and another failed and was retried.         *)
C17_Witness ==
    /\ \E d \in dists :
        /\ d.distribution_status = "completed"
        /\ d.completed_at # None /\ d.platform_post_id # None
    /\ \E d \in dists :
        /\ d.distribution_status = "pending" /\ d.retry_count = 1
        /\ d.completed_at = None

(* C19: in every step of every route, a Distribution disappears only in an *)
(* accepted delete of its own post; after an accepted delete of post P no   *)
(* Distribution of P remains and the Distributions of the other posts are   *)
(* as before; publish, retry, list, post update, account update and         *)
(* account delete remove none.                                              *)
C19_RemovedOnlyWithPost ==
    [][/\ \A d \in dists :
            (\A e \in dists' : e.id # d.id)
            => /\ resp = NoResponse
               /\ resp'.op = "delete_post"
               /\ resp'.code = 200
               /\ resp'.target = d.post_id
       /\ (resp = NoResponse /\ resp'.op = "delete_post" /\ resp'.code = 200)
            => /\ \A e \in dists' : e.post_id # resp'.target
               /\ dists' = {d \in dists : d.post_id # resp'.target}]_vars

(* Post 1 was published and then deleted: its Distribution is gone, and the *)
(* Distribution of post 2 is still there.                                   *)
C19_Witness ==
    /\ resp.op = "delete_post" /\ resp.code = 200 /\ resp.target = 1
    /\ posts[1] = NoRow /\ posts[2] # NoRow
    /\ next_id > 2
    /\ \E d \in dists : d.post_id = 2
    /\ \A d \in dists : d.id = 1

(* C20, as claimed: publish, retry and list always answer with a value,    *)
(* an exception inside them never reaching the caller; and when publish or *)
(* retry answers with the error of an internal fault (500), no             *)
(* Distribution was added or changed by the request.                       *)
C20_FaultLeavesNothingBehind ==
    [][(resp = NoResponse /\ resp'.op \in {"publish", "retry", "list"})
        => /\ resp'.code \in {200, 400, 404, 500}
           /\ resp'.keys # {}
           /\ (resp'.code = 500 /\ resp'.op \in {"publish", "retry"})
                => dists' = dists]_vars

(* C25: a retry that is accepted changes one existing Distribution and     *)
(* nothing else: the number of Distributions stays, the row keeps its id,  *)
(* post_id, social_media_account_id, platform_post_id, completed_at,       *)
(* scheduled_for, platform_response and created_at, and every other row is *)
(* as before.                                                              *)
C25_RetryKeepsIdentity ==
    [][(resp = NoResponse /\ resp'.op = "retry" /\ dists' # dists)
        => /\ Cardinality(dists') = Cardinality(dists)
           /\ \E d \in dists, e \in dists' :
                /\ d.id = resp'.target /\ e.id = d.id
                /\ e.post_id = d.post_id
                /\ e.social_media_account_id = d.social_media_account_id
                /\ e.platform_post_id = d.platform_post_id
                /\ e.completed_at = d.completed_at
                /\ e.scheduled_for = d.scheduled_for
                /\ e.platform_response = d.platform_response
                /\ e.created_at = d.created_at
                /\ dists' \ {e} = dists \ {d}]_vars

(* A retry was accepted for a Distribution that holds the response of its  *)
(* failed attempt, next to a Distribution that completed.                  *)
C25_Witness ==
    /\ resp.op = "retry" /\ resp.code = 200
    /\ \E d \in dists :
        /\ d.id = resp.target /\ d.platform_response # None
        /\ d.retry_count = 1
    /\ \E d \in dists :
        d.id # resp.target /\ d.distribution_status = "completed"

(* C26: a publish call creates exactly one Distribution of the post for    *)
(* each target account that is active and authenticated, and at most one   *)
(* for any account, also when the list names an account twice.             *)
C26_OnePerAccount ==
    [][(resp = NoResponse /\ resp'.op = "publish" /\ resp'.code = 200)
        => \A p \in PostIds :
            resp'.target = p
            => \A u \in Users, ids \in TargetLists :
                publish_post(u, p, ids, FALSE)
                => /\ \A a \in EligibleTargets(u, ids) :
                        Cardinality({d \in dists' \ dists :
                            /\ d.post_id = p
                            /\ d.social_media_account_id = a}) = 1
                   /\ \A a \in AccountIds :
                        Cardinality({d \in dists' \ dists :
                            d.social_media_account_id = a}) <= 1]_vars

(* A publish call created one Distribution, on account 1, while account 2  *)
(* was active too: what the list <<1, 1>> leads to.                        *)
C26_Witness ==
    /\ resp.op = "publish" /\ resp.code = 200 /\ resp.count = 1
    /\ accounts[2].connection_status = "active"
    /\ clock <= AuthTTL - 1
    /\ \E d \in dists :
        /\ resp.distributions = {d.id}
        /\ d.social_media_account_id = 1
        /\ next_id = d.id + 1

(* C27: a publish call adds its Distributions, pending and with            *)
(* retry_count 0, under ids no row had, and leaves every Distribution that *)
(* existed as it was, those of the same post and account included.         *)
C27_RepublishAddsRecord ==
    [][(resp = NoResponse /\ resp'.op = "publish" /\ resp'.code = 200)
        => /\ dists \subseteq dists'
           /\ dists' # dists
           /\ \A e \in dists' \ dists :
                /\ e.distribution_status = "pending"
                /\ e.retry_count = 0
                /\ \A d \in dists : d.id # e.id]_vars

(* The post was published to an account a second time, after its first     *)
(* Distribution there had been attempted: both are on record.              *)
C27_Witness ==
    /\ resp.op = "publish" /\ resp.code = 200
    /\ \E d \in dists, e \in dists :
        /\ d.id < e.id
        /\ d.post_id = e.post_id
        /\ d.social_media_account_id = e.social_media_account_id
        /\ d.distribution_status \in {"completed", "failed", "error"}
        /\ e.id \in resp.distributions
        /\ e.distribution_status = "pending" /\ e.retry_count = 0

(* C30: every Distribution a publish call creates is scheduled for the     *)
(* time the post is scheduled for, or for the time of the call when the    *)
(* post has no schedule; scheduled_for is never unset.                     *)
C30_ScheduledForDefaultsToNow ==
    /\ \A d \in dists : d.scheduled_for # None
    /\ [][(resp = NoResponse /\ resp'.op = "publish")
            => \A e \in dists' \ dists :
                /\ e.scheduled_for # None
                /\ e.scheduled_for =
                     IF posts[e.post_id].scheduled_for # None
                     THEN posts[e.post_id].scheduled_for
                     ELSE Some(clock)]_vars

(* A scheduled post was published at another time than the one it is       *)
(* scheduled for: its Distribution carries the post's time, not the call's. *)
C30_Witness ==
    /\ resp.op = "publish" /\ resp.code = 200
    /\ posts[1].scheduled_for = Some(SchedAt)
    /\ clock # SchedAt
    /\ \E d \in dists :
        d.id \in resp.distributions /\ d.scheduled_for = Some(SchedAt)

(* C31: a retry request for an id that no Distribution has, or whose       *)
(* Distribution belongs to a post of another user, is answered 404         *)
(* "Distribution not found" and changes no Distribution, whatever the      *)
(* status of that Distribution.                                            *)
C31_ForeignRetryNotFound ==
    [][(resp = NoResponse /\ resp'.op = "retry") =>
        \A id \in 1..MaxDists :
            resp'.target = id =>
            \A u \in Users :
                (/\ ~\E d \in dists :
                        /\ d.id = id
                        /\ posts[d.post_id] # NoRow
                        /\ posts[d.post_id].user_id = u
                 /\ retry_distribution(u, id, FALSE))
                => /\ resp'.code = 404
                   /\ resp'.error = "Distribution not found"
                   /\ resp'.keys = {"error"}
                   /\ dists' = dists]_vars

(* A retry of a failed Distribution was answered "not found": the request  *)
(* was not its owner's.                                                    *)
C31_Witness ==
    /\ resp.op = "retry" /\ resp.code = 404
    /\ \E d \in dists :
        /\ d.id = resp.target
        /\ d.distribution_status \in {"failed", "error"}
        /\ d.retry_count = 0
    /\ \E d \in dists :
        d.id # resp.target /\ d.distribution_status = "completed"

(* C32: every Distribution a publish creates is one of the post asked for, *)
(* which is the requester's, on an account of the requester; a publish on  *)
(* a post that is missing or another user's, or with an empty list,        *)
(* creates none and leaves the posts as they are.                          *)
C32_OwnPostOwnAccounts ==
    [][(resp = NoResponse /\ resp'.op = "publish") =>
        /\ \A e \in dists' \ dists :
            /\ e.post_id = resp'.target
            /\ posts[e.post_id] # NoRow
            /\ accounts[e.social_media_account_id] # NoRow
            /\ accounts[e.social_media_account_id].user_id
                    = posts[e.post_id].user_id
        /\ \A p \in PostIds :
            resp'.target = p =>
            \A u \in Users, ids \in TargetLists :
                publish_post(u, p, ids, FALSE)
                => /\ (~OwnedPost(u, p) \/ ids = <<>>)
                        => /\ dists' = dists
                           /\ posts' = posts
                           /\ resp'.code =
                                IF ~OwnedPost(u, p) THEN 404 ELSE 400
                   /\ \A e \in dists' \ dists :
                        accounts[e.social_media_account_id].user_id = u]_vars

(* A publish created a Distribution on account 2 alone while account 3,    *)
(* another user's, was active: what the list <<2, 3>> leads to.            *)
C32_Witness ==
    /\ resp.op = "publish" /\ resp.code = 200 /\ resp.count = 1
    /\ accounts[3].connection_status = "active"
    /\ accounts[3].user_id # posts[1].user_id
    /\ \E d \in dists :
        /\ resp.distributions = {d.id}
        /\ d.social_media_account_id = 2
    /\ \A d \in dists : d.social_media_account_id # 3

(* C28, as claimed, for its accounting: whatever the interleaving of       *)
(* concurrent retry requests, the retry_count of a Distribution is its     *)
(* initial value, 0, plus the number of retry requests on it that were     *)
(* accepted.                                                               *)
C28_NoRetryLost ==
    \A d \in dists :
        d.retry_count
            = Cardinality({r \in Requests :
                            /\ sessions[r].target = d.id
                            /\ sessions[r].code = 200})

-----------------------------------------------------------------------------
(* Properties of the RateLimiter.                                          *)

(* The calls that started in the 60 seconds up to and including time t.    *)
StartedInWindow(t) ==
    {j \in DOMAIN starts : starts[j] > t - Minute /\ starts[j] <= t}

(* C7, as claimed: at most calls_per_minute calls start (return from       *)
(* wait_if_needed) within any trailing 60-second window.                   *)
C7_WindowNeverExceeded ==
    \A i \in DOMAIN starts :
        Cardinality(StartedInWindow(starts[i])) <= calls_per_minute

(* C8, as claimed: every invocation that is over has returned and recorded *)
(* exactly one timestamp, and the (calls_per_minute+1)-th call starts no   *)
(* earlier than an earlier call has left the 60-second window.             *)
C8_DelayedNeverDropped ==
    /\ pc = "idle" => (recorded = invoked /\ Len(starts) = invoked)
    /\ Len(starts) > calls_per_minute
        => starts[calls_per_minute + 1] >= starts[1] + Minute

(* C22, as claimed: an invocation that finds no timestamp left in the      *)
(* trailing 60 seconds returns at once, without sleeping and without       *)
(* failing, and records the current call, for every calls_per_minute >= 0. *)
C22_EmptyWindowNeverBlocks ==
    [][(pc = "idle" /\ invoked' = invoked + 1 /\ Pruned(calls, now') = <<>>)
        => /\ pc' = "idle"
           /\ wall' = now'
           /\ recorded' = recorded + 1
           /\ calls' = <<now'>>]_vars

(* C23: a call that blocks sleeps 60 - (now - oldest recorded call)        *)
(* seconds, which is more than 0 and at most 60; it is released exactly    *)
(* that long after it arrived; and every sleeping call is released.        *)
C23_BoundedSleep ==
    /\ [][pc' = "sleeping"
            => /\ wait_time' = SleepBase - (now' - oldest_call(calls'))
               /\ wait_time' > 0
               /\ wait_time' <= SleepBase]_vars
    /\ [][(pc = "sleeping" /\ pc' = "idle")
            => wall' = now + wait_time]_vars
    /\ (pc = "sleeping" ~> pc = "idle")

(* A call slept for less than the full minute and has returned.            *)
C23_Witness ==
    /\ pc = "idle"
    /\ wait_time > 0 /\ wait_time < SleepBase
    /\ wall = now + wait_time
    /\ recorded = invoked

(* C24, as claimed: the timestamp a call records is the time at which it   *)
(* is released to proceed, so that when it returns the limiter holds at    *)
(* most calls_per_minute timestamps within the 60 seconds before its       *)
(* start.                                                                  *)
C24_RecordsReleaseTime ==
    [][recorded' = recorded + 1
        => /\ calls'[Len(calls')] = wall'
           /\ Cardinality({i \in DOMAIN calls' :
                              wall' - calls'[i] < Minute})
                <= calls_per_minute]_vars

-----------------------------------------------------------------------------
(* Properties of the platform clients.                                     *)

(* C9, as claimed: whatever the remote end does, authenticate,             *)
(* post_content and get_user_info of every adapter hand a response to the  *)
(* caller and raise nothing.                                               *)
C9_NeverRaises ==
    result.client \in Clients => result.out.kind = "response"

(* C10, as claimed: an HTTP response with status >= 400 gives a response   *)
(* with success false, the HTTP status as status_code, and an error made   *)
(* of the status and the raw body.                                         *)
C10_HttpErrorKeepsStatus ==
    (result.http.kind = "http" /\ result.http.status_code >= 400)
    => /\ result.out.kind = "response"
       /\ result.out.response.success = FALSE
       /\ result.out.response.status_code = Some(result.http.status_code)
       /\ result.out.response.error
            = Some([format |-> "HTTP {status_code}: {text}",
                    status_code |-> result.http.status_code,
                    text |-> result.http.text])

(* C11: for an HTTP response with status < 400 the funnel returns success  *)
(* with the status code, data the parsed body when it parses as JSON and   *)
(* the raw text otherwise, and platform_response the parsed body when that *)
(* is an object and the empty object otherwise.                            *)
C11_SuccessCarriesBody ==
    (result.http.kind = "http" /\ result.http.status_code < 400)
    => /\ result.funnel.kind = "response"
       /\ result.funnel.response.success = TRUE
       /\ result.funnel.response.error = None
       /\ result.funnel.response.status_code = Some(result.http.status_code)
       /\ result.funnel.response.data
            = Some([type |-> IF JsonType(result.http.text) = "invalid"
                             THEN "str" ELSE JsonType(result.http.text),
                    of |-> result.http.text])
       /\ result.funnel.response.platform_response
            = IF JsonType(result.http.text) = "dict"
              THEN [type |-> "dict", of |-> result.http.text]
              ELSE [type |-> "dict", of |-> "{}"]

(* A 200 whose body is a JSON list went through the funnel.                *)
C11_Witness ==
    /\ result.http.kind = "http" /\ result.http.status_code = 200
    /\ result.http.text = "[1]"
    /\ result.funnel.kind = "response"
    /\ result.funnel.response.data = Some([type |-> "list", of |-> "[1]"])

(* C12: when no response is received, the funnel returns a response with   *)
(* success false, an error, and no status code.                            *)
C12_TransportFailureIsResponse ==
    result.http.kind = "transport"
    => /\ result.funnel.kind = "response"
       /\ result.funnel.response.success = FALSE
       /\ result.funnel.response.error # None
       /\ result.funnel.response.status_code = None
       /\ result.funnel.response.data = None

(* A request of the Twitter client failed at transport level.              *)
C12_Witness ==
    /\ result.http.kind = "transport"
    /\ result.client = "twitter"
    /\ result.funnel.kind = "response"

(* C13: when the get_user_info sub-call of LinkedIn's post_content returns *)
(* a failure, post_content returns that same response, and the only        *)
(* request it has sent is the one of get_user_info: none to /ugcPosts.     *)
C13_UserInfoFailureReturnedAsIs ==
    (/\ result.client = "linkedin" /\ result.op = "post_content"
     /\ result.user_info.kind = "response"
     /\ result.user_info.response.success = FALSE)
    => /\ result.out = result.user_info
       /\ result.sent = <<<<"linkedin", "GET", "/people/~">>>>
       /\ \A i \in DOMAIN result.sent :
            result.sent[i] # <<"linkedin", "POST", "/ugcPosts">>

(* LinkedIn's post_content returned after its sub-call got a 503.          *)
C13_Witness ==
    /\ result.client = "linkedin" /\ result.op = "post_content"
    /\ result.http.kind = "http" /\ result.http.status_code = 503
    /\ result.user_info.kind = "response"
    /\ result.user_info.response.success = FALSE
    /\ result.out.kind = "response"

(* C14: post_content of the Facebook client without a page id returns a    *)
(* failure with the configuration error and no status code, sends no       *)
(* request and leaves every limiter window as it was.                      *)
C14_NoPageFailsFast ==
    [][(page_id = None /\ \E o \in Outcomes, media_files \in MediaLists :
                            facebook_post_content(o, media_files))
        => /\ result'.out.kind = "response"
           /\ result'.out.response.success = FALSE
           /\ result'.out.response.error
                = Some("Page ID required for posting")
           /\ result'.out.response.status_code = None
           /\ result'.sent = <<>>
           /\ requests' = requests
           /\ slots' = slots]_vars

(* The Facebook client without a page id refused a post after it had made  *)
(* another request.                                                        *)
C14_Witness ==
    /\ page_id = None
    /\ result.client = "facebook" /\ result.op = "post_content"
    /\ result.out.kind = "response" /\ result.sent = <<>>
    /\ slots["facebook"] = 1

(* C21, as claimed: post_content of every adapter, called with media      *)
(* files, logs that media was provided and sends the post request it sends *)
(* without media (for LinkedIn after a get_user_info that succeeded).      *)
C21_MediaLoggedAndPostSent ==
    [][\A media_files \in MediaLists \ {<<>>} :
        /\ \A o \in Outcomes :
            (page_id # None /\ facebook_post_content(o, media_files))
            => /\ MediaNotice \in log'
               /\ result'.sent = <<PostRequest("facebook")>>
        /\ \A o \in Outcomes :
            single_request_operation("twitter", "post_content", o,
                                     media_files)
            => /\ MediaNotice \in log'
               /\ result'.sent = <<PostRequest("twitter")>>
        /\ \A o1 \in Outcomes, o2 \in Outcomes :
            (/\ make_request(o1).kind = "response"
             /\ make_request(o1).response.success
             /\ make_request(o1).response.data[1].type = "dict"
             /\ linkedin_post_content(o1, o2, media_files))
            => /\ MediaNotice \in log'
               /\ result'.sent = <<UserInfoRequest("linkedin"),
                                   PostRequest("linkedin")>>]_vars

-----------------------------------------------------------------------------
(* Properties of the factory and of the clients it creates.                *)

(* C15, as claimed: create_client returns a client of the registered class *)
(* for a registered name and credentials the constructor accepts, returns  *)
(* None for any other name or for a failing construction, and raises for   *)
(* no platform name and no credentials value.                              *)
C15_FactoryNeverRaises ==
    made.out # NoReturn
    => /\ made.out.kind = "response"
       /\ IF /\ made.platform.type = "str"
             /\ lower(made.platform.value) \in Clients
             /\ made.credentials.type = "dict"
          THEN /\ made.out.response # None
               /\ made.out.response[1].class = lower(made.platform.value)
          ELSE made.out.response = None

(* C18: a request through one client changes the calls of that client's    *)
(* limiter only: every other client, its limiter's calls and hence whether *)
(* its next call has to wait, is as before, also when both are of the same *)
(* class with the same credentials; and a client that is created starts    *)
(* with no calls and leaves the others as they are.                        *)
C18_LimiterIsPrivate ==
    [][/\ \A i \in DOMAIN instances, gap \in {0, Minute} :
            through(i, gap)
            => \A j \in DOMAIN instances :
                /\ j # i => instances'[j] = instances[j]
                /\ j # i =>
                    \A t \in {wall', wall' + Minute} :
                        (Len(Pruned(instances'[j].calls, t))
                            >= instances'[j].calls_per_minute)
                        <=> (Len(Pruned(instances[j].calls, t))
                                >= instances[j].calls_per_minute)
       /\ Len(instances') > Len(instances)
            => /\ SubSeq(instances', 1, Len(instances)) = instances
               /\ instances'[Len(instances')].calls = <<>>]_vars

(* Two clients of the same class with the same credentials, one with a     *)
(* call in its window and one with none.                                   *)
C18_Witness ==
    /\ Len(instances) = 2
    /\ instances[1].class = instances[2].class
    /\ instances[1].credentials = instances[2].credentials
    /\ instances[1].calls # <<>>
    /\ instances[2].calls = <<>>

====
